---- MODULE Spec2Model ----
(***************************************************************************)
(* A model of libs/game/src/game.rs: the half-hex grid, the cursor state   *)
(* machine, the MOVEMENT geometry table and the animation set, driven by   *)
(* update_and_render once per frame.                                       *)
(*                                                                         *)
(* Rendering only reads the state and is left out; everything the frame    *)
(* writes to GameState is modelled.                                        *)
(***************************************************************************)
EXTENDS Integers, Sequences, FiniteSets, TLC

\* ------------------------------------------------------------------------
\* Program constants (game.rs:5-7, 80, 248-253)
\* ------------------------------------------------------------------------
GRID_WIDTH == 40
GRID_HEIGHT == 60
GRID_LENGTH == GRID_WIDTH * GRID_HEIGHT
DELAY_FACTOR == 16
HEX_WIDTH == 4
HEX_HEIGHT == 8
HALF_HEX_HEIGHT == HEX_HEIGHT \div 2
EDGE_OFFSET == 6
ROW_TYPES == 3

\* usize arithmetic wraps modulo a power of two (32 or 64 bits on the
\* targets).  The model keeps 30 bits, the widest power of two that TLC's
\* integers hold; a wrapped negative sum lies far above GRID_LENGTH for every
\* width of at least 13 bits, which is all move_hex looks at.
USIZE_MOD == 2^30
U8_MAX == 255

\* Option<HalfHexSpec>::None; a spec is a u8 in 0..255.
None == -1
Specs == 0..U8_MAX
Cells == 0..(GRID_LENGTH - 1)

\* ------------------------------------------------------------------------
\* Exploration bounds
\* ------------------------------------------------------------------------
\* frames explored from GameState::new (Spec)
MaxFrames == 4
\* frames explored from each cursor placement (SpecMove)
MoveFrames == 2
\* frames explored from each far-apart selection (SpecTween)
TweenFrames == 22
\* the leading frames of SpecTween in which buttons are pressed
InputFrames == 3
\* frames explored after each scripted opening (SpecPlay)
PlayFrames == 3

\* ------------------------------------------------------------------------
\* Pure helpers
\* ------------------------------------------------------------------------
Max(a, b) == IF a >= b THEN a ELSE b
Min(a, b) == IF a <= b THEN a ELSE b
Abs(a) == IF a < 0 THEN -a ELSE a

\* on_left!(x): x & 1 == 0; on_left!(x, bit): x & 1
on_left(x) == x % 2 = 0
on_left_bit(x) == x % 2

\* The eight palette colours (rendering::PALETTE), pairwise distinct.
PALETTE == <<"BLUE", "GREEN", "RED", "YELLOW", "PURPLE", "GREY", "WHITE", "BLACK">>

\* spec &= 0b0111_0111: clears bit 3 and bit 7
Mask(spec) == (spec % 8) + 16 * ((spec \div 16) % 8)

get_colours(spec) ==
    LET s == Mask(spec)
    IN  <<PALETTE[(s % 8) + 1], PALETTE[(s \div 16) + 1]>>

\* Option::map(get_colours): None stays None, Some(s) becomes Some(colours)
map_get_colours(cell) == IF cell = None THEN <<>> ELSE <<get_colours(cell)>>

\* new_grid counting from 1 instead of 0 (mutant)
new_grid_at_from_one(i) == (i + 1) % 256

\* fn new_grid: cell i starts with spec i mod 256 (c.wrapping_add(1))
new_grid_at(i) == i % 256

\* The Grid array is held as its difference from new_grid(): a function from
\* the cells whose content differs from the initial content to that content.
\* at(g, i) is g[i] of the code, put(g, i, v) is the grid after g[i] = v.
at(g, i) == IF i \in DOMAIN g THEN g[i] ELSE new_grid_at(i)
put(g, i, v) ==
    IF v = new_grid_at(i)
    THEN [j \in DOMAIN g \ {i} |-> g[j]]
    ELSE [j \in DOMAIN g \cup {i} |-> IF j = i THEN v ELSE g[j]]

i_to_xy(i) == <<i % GRID_WIDTH, i \div GRID_WIDTH>>
xy_to_i(x, y) == y * GRID_WIDTH + x

p_xy(x, y) ==
    LET x_offset == (y % ROW_TYPES) * HEX_WIDTH
    IN  IF on_left(x)
        THEN <<(x * 6 + x_offset + EDGE_OFFSET) % 256,
               (y * HALF_HEX_HEIGHT + EDGE_OFFSET) % 256>>
        ELSE <<(x * 6 + x_offset - 2 + EDGE_OFFSET) % 256,
               (y * HALF_HEX_HEIGHT + EDGE_OFFSET) % 256>>

\* ------------------------------------------------------------------------
\* Cursor
\* ------------------------------------------------------------------------
Unselected(c) == [tag |-> "Unselected", c1 |-> c, c2 |-> c]
Selected(c1, c2) == [tag |-> "Selected", c1 |-> c1, c2 |-> c2]

IsSelected(cur) == cur.tag = "Selected"

\* wrapping_add moving the anchor of a Selected cursor with the drag (mutant)
cursor_wrapping_add_both(cur, other) ==
    IF cur.tag = "Unselected"
    THEN [tag |-> "Unselected", c1 |-> (cur.c1 + other) % USIZE_MOD,
          c2 |-> (cur.c1 + other) % USIZE_MOD]
    ELSE [tag |-> "Selected", c1 |-> (cur.c1 + other) % USIZE_MOD,
          c2 |-> (cur.c2 + other) % USIZE_MOD]

\* Cursor::wrapping_add: Unselected moves its position, Selected its drag
cursor_wrapping_add(cur, other) ==
    IF cur.tag = "Unselected"
    THEN Unselected((cur.c1 + other) % USIZE_MOD)
    ELSE Selected(cur.c1, (cur.c2 + other) % USIZE_MOD)

\* From<Cursor> for usize: the moving position
cursor_into(cur) == cur.c2

\* ------------------------------------------------------------------------
\* Geometry table
\* ------------------------------------------------------------------------
Up == 0
Down == 1
Left == 2
Right == 3
Dirs == {Up, Down, Left, Right}

MOVEMENT ==
    LET W == GRID_WIDTH
    IN  << -(W + 1), 2 * W - 1, W - 1, 1,
           -(2 * W + 1), W - 1, -1, -(W + 1),
           -(W - 1), 2 * W + 1, W - 1, 1,
           -(2 * W + 1), W - 1, -1, -(W - 1),
           -(W - 1), 2 * W + 1, W + 1, 1,
           -(2 * W - 1), W + 1, -1, -(W - 1) >>

\* get_movement_offset reading the left-half entries for both halves (mutant)
get_movement_offset_left_only(x, y, dir) ==
    MOVEMENT[((y % ROW_TYPES) * 8 + dir) + 1]

\* get_movement_offset with Right taking the step Down takes (mutant)
get_movement_offset_right_as_down(x, y, dir) ==
    MOVEMENT[((y % ROW_TYPES) * 8 + on_left_bit(x) * 4
              + (IF dir = Right THEN Down ELSE dir)) + 1]

\* index = ((y % ROW_TYPES) << 3) | (on_left!(x, bit) << 2) | dir
get_movement_offset(x, y, dir) ==
    MOVEMENT[((y % ROW_TYPES) * 8 + on_left_bit(x) * 4 + dir) + 1]

\* `offset as usize` zero-extending the byte of the i8 (mutant)
as_usize_zero_extended(offset) == offset % 256

\* `offset as usize` sign-extends the i8
as_usize(offset) == IF offset < 0 THEN USIZE_MOD + offset ELSE offset

\* move_hex without the left/right wrap-around guard (mutant)
move_hex_unguarded(cur, dir) ==
    LET cursor_num == cursor_into(cur)
        xy == i_to_xy(cursor_num)
        offset == get_movement_offset(xy[1], xy[2], dir)
        new_cursor == cursor_wrapping_add(cur, as_usize(offset))
    IN  IF cursor_into(new_cursor) < GRID_LENGTH THEN new_cursor ELSE cur

\* move_hex!(dir): the cursor after one directional press
move_hex(cur, dir) ==
    LET cursor_num == cursor_into(cur)
        xy == i_to_xy(cursor_num)
        x == xy[1]
        y == xy[2]
        offset == get_movement_offset(x, y, dir)
        new_cursor == cursor_wrapping_add(cur, as_usize(offset))
        new_cursor_num == cursor_into(new_cursor)
        new_x == new_cursor_num % GRID_WIDTH
        looped == (x = 0 /\ new_x = GRID_WIDTH - 1)
                  \/ (x = GRID_WIDTH - 1 /\ new_x = 0)
    IN  IF new_cursor_num < GRID_LENGTH /\ ~looped THEN new_cursor ELSE cur

\* ------------------------------------------------------------------------
\* Animation
\* ------------------------------------------------------------------------
\* u8 casts and saturating arithmetic
as_i8(v) == IF v % 256 > 127 THEN (v % 256) - 256 ELSE v % 256
as_u8(v) == v % 256
saturating_add(a, b) == IF a + b > U8_MAX THEN U8_MAX ELSE a + b
saturating_sub(a, b) == IF a - b < 0 THEN 0 ELSE a - b

\* the axis distance measured only when the start is past the target (mutant)
axis_diff_one_way(v, target) == IF v > target THEN v - target ELSE 0

\* the (x_diff, y_diff) computation of Animation::new, one axis
axis_diff(v, target) ==
    IF target = v THEN 0 ELSE IF v > target THEN v - target ELSE target - v

\* Animation::new placing start and target by the rendering layout (mutant)
Animation_new_rendering_layout(i, target_i, spec) ==
    LET xy == p_xy(i_to_xy(i)[1], i_to_xy(i)[2])
        txy == p_xy(i_to_xy(target_i)[1], i_to_xy(target_i)[2])
    IN  [x |-> xy[1], y |-> xy[2],
         x_rate |-> Max(axis_diff(xy[1], txy[1]) \div DELAY_FACTOR, 1),
         y_rate |-> Max(axis_diff(xy[2], txy[2]) \div DELAY_FACTOR, 1),
         target_x |-> txy[1], target_y |-> txy[2],
         spec |-> spec,
         from |-> i, age |-> 0]

\* Animation::new without the floor of 1 on the rates (mutant)
Animation_new_no_floor(i, target_i, spec) ==
    LET xy == i_to_xy(i)
        txy == i_to_xy(target_i)
    IN  [x |-> xy[1], y |-> xy[2],
         x_rate |-> axis_diff(xy[1], txy[1]) \div DELAY_FACTOR,
         y_rate |-> axis_diff(xy[2], txy[2]) \div DELAY_FACTOR,
         target_x |-> txy[1], target_y |-> txy[2],
         spec |-> spec,
         from |-> i, age |-> 0]

\* Animation::new(i, target_i, spec).  `from` and `age` are history fields
\* (the cell the piece left, the number of ticks it has been advanced);
\* the code never reads them.
Animation_new(i, target_i, spec) ==
    LET xy == i_to_xy(i)
        txy == i_to_xy(target_i)
        x_diff == axis_diff(xy[1], txy[1])
        y_diff == axis_diff(xy[2], txy[2])
    IN  [x |-> xy[1], y |-> xy[2],
         x_rate |-> Max(x_diff \div DELAY_FACTOR, 1),
         y_rate |-> Max(y_diff \div DELAY_FACTOR, 1),
         target_x |-> txy[1], target_y |-> txy[2],
         spec |-> spec,
         from |-> i, age |-> 0]

is_complete(a) == a.x = a.target_x /\ a.y = a.target_y

\* get_delta stepping by the full rate whatever distance remains (mutant)
axis_delta_full_rate(v, target, rate) ==
    IF target = v THEN 0
    ELSE IF v > target THEN -as_i8(rate)
    ELSE as_i8(rate)

\* one axis of get_delta
axis_delta(v, target, rate) ==
    IF target = v THEN 0
    ELSE IF v > target THEN -as_i8(Min(v - target, rate))
    ELSE as_i8(Min(target - v, rate))

get_delta(a) ==
    <<axis_delta(a.x, a.target_x, a.x_rate), axis_delta(a.y, a.target_y, a.y_rate)>>

\* one axis of approach_target
axis_step(v, d) ==
    IF d > 0 THEN saturating_add(v, as_u8(d))
    ELSE IF d < 0 THEN saturating_sub(v, as_u8(Abs(d)))
    ELSE v

approach_target(a) ==
    LET d == get_delta(a)
    IN  [a EXCEPT !.x = axis_step(a.x, d[1]),
                  !.y = axis_step(a.y, d[2]),
                  !.age = a.age + 1]

\* Vec::swap_remove(k), 1-based: the last element takes the place of k
swap_remove(v, k) ==
    IF k = Len(v) THEN SubSeq(v, 1, Len(v) - 1)
    ELSE [j \in 1..(Len(v) - 1) |-> IF j = k THEN v[Len(v)] ELSE v[j]]

\* the partner half of the hexagon cell `index` (column x) belongs to
other_index(x, index) == IF on_left(x) THEN index + 1 ELSE index - 1

\* commit writing the spec without looking at the partner cell (mutant)
commit_without_match(g, a) == put(g, xy_to_i(a.x, a.y), a.spec)

\* commit with a match clearing only the committed cell (mutant)
commit_keeps_partner(g, a) ==
    LET index == xy_to_i(a.x, a.y)
        g1 == put(g, index, a.spec)
        other == other_index(a.x, index)
    IN  IF map_get_colours(at(g1, other)) = map_get_colours(at(g1, index))
        THEN put(g1, index, None)
        ELSE g1

\* the body of `if animation.is_complete()`: write the spec, clear the
\* hexagon when both halves have the same colours
commit(g, a) ==
    LET index == xy_to_i(a.x, a.y)
        g1 == put(g, index, a.spec)
        other == other_index(a.x, index)
    IN  IF map_get_colours(at(g1, other)) = map_get_colours(at(g1, index))
        THEN put(put(g1, other, None), index, None)
        ELSE g1

\* for animation_index in (0..state.animations.len()).rev() { .. }
\* st = [grid, animations, commits, steps]; commits and steps are histories:
\* the commits made, in the order made, each with the two cells of the
\* hexagon as they were right after it, and the animations before and after
\* each approach_target call.
RECURSIVE update_loop(_, _)
update_loop(k, st) ==
    IF k = 0 THEN st
    ELSE LET before == st.animations[k]
             a == approach_target(before)
             anims1 == [st.animations EXCEPT ![k] = a]
             steps1 == Append(st.steps, [before |-> before, after |-> a])
         IN  IF is_complete(a)
             THEN LET index == xy_to_i(a.x, a.y)
                      other == other_index(a.x, index)
                      g1 == commit(st.grid, a)
                  IN  update_loop(k - 1,
                        [grid |-> g1,
                         animations |-> swap_remove(anims1, k),
                         commits |-> Append(st.commits,
                            [index |-> index, spec |-> a.spec,
                             from |-> a.from, age |-> a.age,
                             other |-> other,
                             other_before |-> at(st.grid, other),
                             index_after |-> at(g1, index),
                             other_after |-> at(g1, other)]),
                         steps |-> steps1])
             ELSE update_loop(k - 1,
                    [st EXCEPT !.animations = anims1, !.steps = steps1])

update_animations(g, anims) ==
    update_loop(Len(anims),
        [grid |-> g, animations |-> anims, commits |-> <<>>, steps |-> <<>>])

\* ------------------------------------------------------------------------
\* Input handling of update_and_render
\* ------------------------------------------------------------------------
A == 4
Buttons == {A, Up, Down, Left, Right}

\* confirm with each animation carrying the spec of the cell it targets
\* (mutant)
confirm_wrong_spec(st) ==
    IF st.cursor.tag = "Unselected"
    THEN IF at(st.grid, st.cursor.c1) # None
         THEN [st EXCEPT !.cursor = Selected(st.cursor.c1, st.cursor.c1)]
         ELSE st
    ELSE LET c1 == st.cursor.c1
             c2 == st.cursor.c2
             h1 == at(st.grid, c1)
             h2 == at(st.grid, c2)
         IN  IF h1 # None /\ h2 # None
             THEN [grid |-> put(put(st.grid, c1, None), c2, None),
                   animations |-> Append(Append(st.animations,
                                     Animation_new(c1, c2, h2)),
                                     Animation_new(c2, c1, h1)),
                   cursor |-> Unselected(c2)]
             ELSE st

\* confirm that lands the cursor on the anchor after a swap (mutant)
confirm_lands_on_anchor(st) ==
    IF st.cursor.tag = "Unselected"
    THEN IF at(st.grid, st.cursor.c1) # None
         THEN [st EXCEPT !.cursor = Selected(st.cursor.c1, st.cursor.c1)]
         ELSE st
    ELSE LET c1 == st.cursor.c1
             c2 == st.cursor.c2
             h1 == at(st.grid, c1)
             h2 == at(st.grid, c2)
         IN  IF h1 # None /\ h2 # None
             THEN [grid |-> put(put(st.grid, c1, None), c2, None),
                   animations |-> Append(Append(st.animations,
                                     Animation_new(c1, c2, h1)),
                                     Animation_new(c2, c1, h2)),
                   cursor |-> Unselected(c1)]
             ELSE st

\* confirm that unselects when a cell of the selection is empty (mutant)
confirm_unselects_on_empty(st) ==
    IF st.cursor.tag = "Unselected"
    THEN IF at(st.grid, st.cursor.c1) # None
         THEN [st EXCEPT !.cursor = Selected(st.cursor.c1, st.cursor.c1)]
         ELSE st
    ELSE LET c1 == st.cursor.c1
             c2 == st.cursor.c2
             h1 == at(st.grid, c1)
             h2 == at(st.grid, c2)
         IN  IF h1 # None /\ h2 # None
             THEN [grid |-> put(put(st.grid, c1, None), c2, None),
                   animations |-> Append(Append(st.animations,
                                     Animation_new(c1, c2, h1)),
                                     Animation_new(c2, c1, h2)),
                   cursor |-> Unselected(c2)]
             ELSE [st EXCEPT !.cursor = Unselected(c2)]

\* confirm with the swap leaving the drag cell in place (mutant)
confirm_keeps_drag(st) ==
    IF st.cursor.tag = "Unselected"
    THEN IF at(st.grid, st.cursor.c1) # None
         THEN [st EXCEPT !.cursor = Selected(st.cursor.c1, st.cursor.c1)]
         ELSE st
    ELSE LET c1 == st.cursor.c1
             c2 == st.cursor.c2
             h1 == at(st.grid, c1)
             h2 == at(st.grid, c2)
         IN  IF h1 # None /\ h2 # None
             THEN [grid |-> put(st.grid, c1, None),
                   animations |-> Append(Append(st.animations,
                                     Animation_new(c1, c2, h1)),
                                     Animation_new(c2, c1, h2)),
                   cursor |-> Unselected(c2)]
             ELSE st

\* if input.pressed_this_frame(Button::A) { match state.cursor { .. } }
\* st = [grid, animations, cursor]
confirm(st) ==
    IF st.cursor.tag = "Unselected"
    THEN IF at(st.grid, st.cursor.c1) # None
         THEN [st EXCEPT !.cursor = Selected(st.cursor.c1, st.cursor.c1)]
         ELSE st
    ELSE LET c1 == st.cursor.c1
             c2 == st.cursor.c2
             h1 == at(st.grid, c1)
             h2 == at(st.grid, c2)
         IN  IF h1 # None /\ h2 # None
             THEN [grid |-> put(put(st.grid, c1, None), c2, None),
                   animations |-> Append(Append(st.animations,
                                     Animation_new(c1, c2, h1)),
                                     Animation_new(c2, c1, h2)),
                   cursor |-> Unselected(c2)]
             ELSE st

press(b, btn, cur) == IF btn \in b THEN move_hex(cur, btn) ELSE cur

\* the four `if input.pressed_this_frame(..) { move_hex!(..) }`, in order
move_all(b, cur) ==
    press(b, Right, press(b, Left, press(b, Down, press(b, Up, cur))))

\* fn new_grid: no cell differs from its initial content
new_grid == <<>>

\* GameState::new, with the two history fields of the model empty
GameState_new ==
    [grid |-> new_grid,
     cursor |-> Unselected(GRID_WIDTH + 1),
     frame_counter |-> 0,
     animations |-> <<>>,
     input |-> {},
     mid |-> [grid |-> new_grid, animations |-> <<>>, commits |-> <<>>,
              steps |-> <<>>, cursor |-> Unselected(GRID_WIDTH + 1)]]

\* update_and_render(state, input) with the buttons b pressed this frame:
\* the GameState it leaves.  input and mid are histories: the buttons of the
\* frame and the state between its phases (grid and animations after the
\* update loop, cursor after the Confirm block).
update_and_render(state, b) ==
    LET u == update_animations(state.grid, state.animations)
        s0 == [grid |-> u.grid, animations |-> u.animations,
               cursor |-> state.cursor]
        s1 == IF A \in b THEN confirm(s0) ELSE s0
    IN  [grid |-> s1.grid,
         cursor |-> move_all(b, s1.cursor),
         frame_counter |-> state.frame_counter + 1,
         animations |-> s1.animations,
         input |-> b,
         mid |-> [grid |-> u.grid, animations |-> u.animations,
                  commits |-> u.commits, steps |-> u.steps,
                  cursor |-> s1.cursor]]

\* the state after the frames of a script (a sequence of button sets)
RECURSIVE run(_, _)
run(state, script) ==
    IF script = <<>> THEN state
    ELSE run(update_and_render(state, Head(script)), Tail(script))

\* ------------------------------------------------------------------------
\* State
\* ------------------------------------------------------------------------
VARIABLES
    grid,           \* GameState.grid, as its difference from new_grid()
    cursor,         \* GameState.cursor
    animations,     \* GameState.animations, a sequence
    frame_counter,  \* GameState.frame_counter
    input,          \* history: the buttons pressed in the last frame
    mid             \* history: the last frame's state between its phases

vars == <<grid, cursor, animations, frame_counter, input, mid>>

state_now ==
    [grid |-> grid, cursor |-> cursor, frame_counter |-> frame_counter,
     animations |-> animations, input |-> input, mid |-> mid]

Is(state) ==
    /\ grid = state.grid
    /\ cursor = state.cursor
    /\ frame_counter = state.frame_counter
    /\ animations = state.animations
    /\ input = state.input
    /\ mid = state.mid

\* one call of EntireState::frame with the buttons b pressed this frame
Frame(b) ==
    LET n == update_and_render(state_now, b)
    IN  /\ grid' = n.grid
        /\ cursor' = n.cursor
        /\ frame_counter' = n.frame_counter
        /\ animations' = n.animations
        /\ input' = n.input
        /\ mid' = n.mid

\* ---- Spec: the game from GameState::new, any buttons in any frame --------
Init == Is(GameState_new)

Next == \E b \in SUBSET Buttons : frame_counter < MaxFrames /\ Frame(b)

Spec == Init /\ [][Next]_vars

\* ---- SpecMove: one directional press from every cursor placement --------
\* Every cell is reachable from the start cell by directional presses (the
\* move graph is connected, diameter 119), and every cell of a fresh grid can
\* be selected, so each of these placements is a state of the program; by
\* frame SettledFrame each of them can have been reached.
SettledFrame == GRID_LENGTH
MoveAnchors == {0, GRID_WIDTH + 1, GRID_LENGTH - 1}

Placed(cur) ==
    Is([GameState_new EXCEPT !.cursor = cur, !.frame_counter = SettledFrame])

InitMove ==
    \E c \in Cells :
        \/ Placed(Unselected(c))
        \/ \E a \in MoveAnchors : Placed(Selected(a, c))

NextMove ==
    \E d \in Dirs : frame_counter < SettledFrame + MoveFrames /\ Frame({d})

SpecMove == InitMove /\ [][NextMove]_vars

\* ---- SpecTween: swaps between far-apart cells ----------------------------
\* <<anchor, drag>> selections: from cell 0 over every row distance 0..59
\* and every column distance 0..39, and between other far-apart cells; they
\* cover both rates of the x axis (1, 2), all three of the y axis (1, 2, 3),
\* distances that are and are not multiples of the rate, and distance zero.
TweenPairs ==
    { <<0, xy_to_i(dy % GRID_WIDTH, dy)>> : dy \in 0..(GRID_HEIGHT - 1) } \cup
    { <<0, GRID_LENGTH - 1>>,                      \* 39 columns, 59 rows
      <<GRID_WIDTH - 1, xy_to_i(0, 59)>>,          \* the other diagonal
      <<xy_to_i(1, 1), xy_to_i(34, 50)>>,          \* 33 columns, 49 rows
      <<xy_to_i(36, 52), xy_to_i(4, 4)>>,          \* 32 columns, 48 rows
      <<xy_to_i(3, 55), xy_to_i(18, 5)>>,          \* 15 columns, 50 rows
      <<xy_to_i(38, 10), xy_to_i(2, 42)>>,         \* 36 columns, 32 rows
      <<xy_to_i(20, 30), xy_to_i(20, 47)>>,        \* 0 columns, 17 rows
      <<xy_to_i(7, 7), xy_to_i(7, 7)>> }           \* anchor = drag

TweenInputs == {{}, {A}, {A, Left}, {Right}, {Down}}

InitTween == \E p \in TweenPairs : Placed(Selected(p[1], p[2]))

NextTween ==
    \E b \in TweenInputs :
        /\ frame_counter < SettledFrame + TweenFrames
        /\ b = {} \/ frame_counter < SettledFrame + InputFrames
        /\ Frame(b)

SpecTween == InitTween /\ [][NextTween]_vars

\* ---- SpecPlay: scripted openings, then any buttons in any frame -----------
Rep(b, n) == [j \in 1..n |-> b]

\* the swap of cells 41 and 160 is in flight (3 ticks), the cursor has
\* selected 161 and dragged to the emptied cell 160
ScriptDragEmpty == <<{A, Down, Left}, {Down}, {A, Right}, {A, Left}>>
\* the swap of cells 160 and 41 is in flight and will match in both
\* hexagons; the cursor has selected cell 40, the partner of cell 41
ScriptAnchorMatch ==
    <<{Down, Left}, {Down}, {A, Up, Right}, {Up}, {A, Left}, {A}>>
\* the swap of cells 41 and 201 is in flight (4 ticks); the cursor has
\* selected 161 and dragged to 200, the partner of 201: confirming now lands
\* the matching specs 41 and 161 in that hexagon in the same frame
ScriptTwoSwaps ==
    <<{A, Down}, {Down}, {Down, Right}, {A, Up}, {Left}, {A, Down}>>

Scripts == {<<>>, ScriptDragEmpty, ScriptAnchorMatch, ScriptTwoSwaps}

ScriptLen == 6

\* idle frames first, so that every opening ends at frame ScriptLen
InitPlay ==
    \E sc \in Scripts :
        Is(run(GameState_new, Rep({}, ScriptLen - Len(sc)) \o sc))

NextPlay ==
    \E b \in SUBSET Buttons :
        frame_counter < ScriptLen + PlayFrames /\ Frame(b)

SpecPlay == InitPlay /\ [][NextPlay]_vars

TypeOK ==
    /\ DOMAIN grid \subseteq Cells
    /\ \A i \in DOMAIN grid : grid[i] \in Specs \cup {None} /\ grid[i] # new_grid_at(i)
    /\ cursor.c1 \in Cells /\ cursor.c2 \in Cells

\* ------------------------------------------------------------------------
\* Claims
\* ------------------------------------------------------------------------

\* C1 -- Swap initiation.  A frame in which Confirm is pressed while the
\* cursor is Selected(a, b) and cells a and b are both occupied (when the
\* Confirm is handled, that is after the frame's update loop) leaves both
\* cells empty and adds exactly two animations to the set: one at a's
\* position, targeting b's position, carrying a's spec, and one at b's
\* position, targeting a's, carrying b's spec.  And at every frame boundary
\* the cell an in-flight animation left and the cell it targets are empty.
C1_SwapInitiation ==
    [][ /\ ( /\ A \in input'
             /\ cursor.tag = "Selected"
             /\ at(mid'.grid, cursor.c1) # None
             /\ at(mid'.grid, cursor.c2) # None )
           => LET a == cursor.c1
                  b == cursor.c2
                  n == Len(mid'.animations)
                  ab == animations'[n + 1]
                  ba == animations'[n + 2]
              IN  /\ at(grid', a) = None /\ at(grid', b) = None
                  /\ Len(animations') = n + 2
                  /\ SubSeq(animations', 1, n) = mid'.animations
                  /\ <<ab.x, ab.y>> = <<a % 40, a \div 40>>
                  /\ <<ab.target_x, ab.target_y>> = <<b % 40, b \div 40>>
                  /\ ab.spec = at(mid'.grid, a)
                  /\ <<ba.x, ba.y>> = <<b % 40, b \div 40>>
                  /\ <<ba.target_x, ba.target_y>> = <<a % 40, a \div 40>>
                  /\ ba.spec = at(mid'.grid, b)
        /\ \A k \in 1..Len(animations') :
              /\ at(grid', animations'[k].from) = None
              /\ at(grid', animations'[k].target_y * 40 + animations'[k].target_x) = None
      ]_vars

\* C1 witness: a swap between two distinct cells is in flight a frame after
\* it was initiated, both of its cells still empty.
C1_Witness ==
    \E k \in 1..Len(animations) :
        /\ animations[k].age >= 1
        /\ animations[k].from # animations[k].target_y * 40 + animations[k].target_x
        /\ at(grid, animations[k].from) = None
        /\ at(grid, animations[k].target_y * 40 + animations[k].target_x) = None

\* C2 -- Match resolution.  Every commit of a completed animation into a
\* cell whose partner cell (index + 1 in an even column, index - 1 in an
\* odd one) is occupied leaves, right after the commit, both cells empty
\* when the carried spec and the partner's spec have the same inside and
\* outline colours, and otherwise leaves the committed cell holding the
\* carried spec and the partner what it held.
\* This covers a partner placed by an earlier commit, of the same frame or
\* of an earlier one.
C2_MatchResolution ==
    \A k \in 1..Len(mid.commits) :
        LET e == mid.commits[k]
            same == get_colours(e.spec) = get_colours(e.other_before)
        IN  /\ e.other = IF (e.index % 40) % 2 = 0 THEN e.index + 1 ELSE e.index - 1
            /\ e.other_before # None =>
                 IF same
                 THEN e.index_after = None /\ e.other_after = None
                 ELSE e.index_after = e.spec /\ e.other_after = e.other_before

\* C2 witness: two animations of different swaps committed into the two
\* halves of one hexagon in this frame, their specs different but equal in
\* bits 0-2 and 4-6, and the hexagon is empty.
C2_Witness ==
    \E i, j \in 1..Len(mid.commits) :
        LET first == mid.commits[i]
            second == mid.commits[j]
        IN  /\ i < j
            /\ second.other = first.index
            /\ second.other_before = first.spec
            /\ first.from # second.index
            /\ first.spec # second.spec
            /\ first.spec % 8 = second.spec % 8
            /\ (first.spec \div 16) % 8 = (second.spec \div 16) % 8
            /\ second.index_after = None /\ second.other_after = None
            /\ at(grid, first.index) = None /\ at(grid, second.index) = None

\* C3 (as claimed) -- a Left press while the moving position is in column 0,
\* and a Right press while it is in column 39, never changes the cursor.
C3_AsClaimed ==
    [][ ( \/ input' = {Left} /\ cursor.c2 % 40 = 0
          \/ input' = {Right} /\ cursor.c2 % 40 = 39 )
        => cursor' = cursor ]_vars

\* C3 (amended) -- Cursor edge moves.  For both cursor forms, a Left press
\* with the moving position in column 0 of row y leaves the cursor as it
\* was, except in the rows with y mod 3 = 2 and y < 59, where the moving
\* position goes to column 1 of row y + 1; a Right press in column 39 leaves
\* the cursor as it was, except in the rows with y mod 3 = 0 and y >= 3,
\* where the moving position goes to column 38 of row y - 1.  The anchor of
\* a Selected cursor and the form of the cursor never change, and the
\* moving position never lands in the opposite edge column.
C3_EdgeMoves ==
    [][ LET y == cursor.c2 \div 40
            moved(n) == IF cursor.tag = "Unselected"
                        THEN [tag |-> "Unselected", c1 |-> n, c2 |-> n]
                        ELSE [tag |-> "Selected", c1 |-> cursor.c1, c2 |-> n]
        IN  /\ (input' = {Left} /\ cursor.c2 % 40 = 0) =>
                 /\ cursor' = IF y % 3 = 2 /\ y < 59
                              THEN moved((y + 1) * 40 + 1)
                              ELSE cursor
                 /\ cursor'.c2 % 40 # 39
            /\ (input' = {Right} /\ cursor.c2 % 40 = 39) =>
                 /\ cursor' = IF y % 3 = 0 /\ y >= 3
                              THEN moved((y - 1) * 40 + 38)
                              ELSE cursor
                 /\ cursor'.c2 % 40 # 0
      ]_vars

\* C3 witness: a Left press in column 0 of a row with y mod 3 # 2 was
\* rejected while the cursor was Selected.
C3_Witness ==
    /\ input = {Left}
    /\ frame_counter > SettledFrame
    /\ cursor.tag = "Selected"
    /\ cursor.c2 % 40 = 0
    /\ (cursor.c2 \div 40) % 3 = 1
    /\ cursor.c2 # cursor.c1
    /\ mid.cursor = cursor

\* C4 -- Geometry table correctness.  Whenever a directional press moves
\* the cursor, the cell it moves to lies, under the rendering layout p_xy,
\* in that direction of the cell it left: Up and Down keep the pixel x and
\* strictly decrease / increase the pixel y, Left and Right decrease /
\* increase the pixel x by exactly 4; and the new index is the old index
\* plus the table entry of (y mod 3, x mod 2, direction).
C4_GeometryTable ==
    [][ \A d \in {0, 1, 2, 3} :
          (input' = {d} /\ cursor' # cursor) =>
             LET old == cursor.c2
                 new == cursor'.c2
                 p == p_xy(old % 40, old \div 40)
                 q == p_xy(new % 40, new \div 40)
                 entry == MOVEMENT[8 * ((old \div 40) % 3) + 4 * ((old % 40) % 2) + d + 1]
             IN  /\ new \in 0..2399
                 /\ new = old + entry
                 /\ d = 0 => q[1] = p[1] /\ q[2] < p[2]
                 /\ d = 1 => q[1] = p[1] /\ q[2] > p[2]
                 /\ d = 2 => q[1] = p[1] - 4
                 /\ d = 3 => q[1] = p[1] + 4
      ]_vars

\* C4 witness: a Down press from a left-half cell was accepted and took
\* the cursor two rows down the board, 8 pixels below where it was.
C4_Witness ==
    /\ input = {Down}
    /\ frame_counter > SettledFrame
    /\ mid.cursor # cursor
    /\ (mid.cursor.c2 % 40) % 2 = 0
    /\ p_xy(cursor.c2 % 40, cursor.c2 \div 40)[1]
         = p_xy(mid.cursor.c2 % 40, mid.cursor.c2 \div 40)[1]
    /\ p_xy(cursor.c2 % 40, cursor.c2 \div 40)[2]
         = p_xy(mid.cursor.c2 % 40, mid.cursor.c2 \div 40)[2] + 8

\* C5 -- Tween monotonicity.  Every call of approach_target moves each axis
\* toward its target by exactly min(remaining distance, rate of the axis),
\* the rate being at least 1: an axis that is not aligned gets strictly
\* closer, an aligned axis stays, the position never passes the target and
\* stays within 0..255; target, rates and spec are left as they were.
C5_TweenMonotone ==
    \A k \in 1..Len(mid.steps) :
        LET b == mid.steps[k].before
            a == mid.steps[k].after
            dist(v, t) == IF v >= t THEN v - t ELSE t - v
            least(m, n) == IF m <= n THEN m ELSE n
            axis(bv, av, t, r) ==
                /\ r >= 1
                /\ av \in 0..255
                /\ dist(av, t) = dist(bv, t) - least(dist(bv, t), r)
                /\ bv <= t => (bv <= av /\ av <= t)
                /\ bv >= t => (t <= av /\ av <= bv)
                /\ bv # t => dist(av, t) < dist(bv, t)
                /\ bv = t => av = bv
        IN  /\ axis(b.x, a.x, b.target_x, b.x_rate)
            /\ axis(b.y, a.y, b.target_y, b.y_rate)
            /\ <<a.target_x, a.target_y, a.x_rate, a.y_rate, a.spec>>
                 = <<b.target_x, b.target_y, b.x_rate, b.y_rate, b.spec>>

\* C5 witness: a step of an animation with x rate 2 and y rate 3 that had
\* one column and one row left, and took exactly those.
C5_Witness ==
    \E k \in 1..Len(mid.steps) :
        LET b == mid.steps[k].before
            a == mid.steps[k].after
        IN  /\ b.x_rate = 2 /\ b.y_rate = 3
            /\ b.x = b.target_x + 1 /\ b.y = b.target_y + 1
            /\ a.x = a.target_x /\ a.y = a.target_y

\* C6 -- Animation termination.  With dx and dy the column and row
\* distances between the cell an animation left and the cell it targets:
\* an animation in flight at a frame boundary has been advanced fewer than
\* max(1, dx, dy) times and, once advanced, is not at its target; an
\* animation is committed and removed in a frame in which it is advanced
\* for at least the 1st and at most the max(1, dx, dy)-th time.  So no
\* animation survives max(1, dx, dy) frames, whatever the buttons pressed.
C6_AnimationTerminates ==
    LET dist(v, t) == IF v >= t THEN v - t ELSE t - v
        most(m, n) == IF m >= n THEN m ELSE n
        limit(from, to) ==
            most(1, most(dist(from % 40, to % 40), dist(from \div 40, to \div 40)))
    IN  /\ \A k \in 1..Len(animations) :
              LET an == animations[k]
              IN  /\ an.age >= 0
                  /\ an.age < limit(an.from, an.target_y * 40 + an.target_x)
                  /\ an.age >= 1 => ~(an.x = an.target_x /\ an.y = an.target_y)
        /\ \A k \in 1..Len(mid.commits) :
              LET e == mid.commits[k]
              IN  /\ e.age >= 1
                  /\ e.age <= limit(e.from, e.index)
                  /\ \A j \in 1..Len(animations) :
                        animations[j].age = 0
                        \/ <<animations[j].from, animations[j].spec>> # <<e.from, e.spec>>

\* C6 witness: an animation over at least 32 columns or 48 rows was
\* committed, at its 16th tick or later, sooner than one tick per cell.
C6_Witness ==
    \E k \in 1..Len(mid.commits) :
        LET e == mid.commits[k]
            dist(v, t) == IF v >= t THEN v - t ELSE t - v
        IN  /\ e.age >= 16
            /\ \/ dist(e.from % 40, e.index % 40) >= 32
               \/ dist(e.from \div 40, e.index \div 40) >= 48
            /\ e.age < dist(e.from \div 40, e.index \div 40)
            /\ at(grid, e.index) = e.spec

\* C7 -- End-to-end scenario.  From the state of GameState::new (cursor
\* Unselected(41), every cell i holding i mod 256, no animations): a frame
\* with Confirm alone gives Selected(41, 41); from there a frame with Right
\* alone gives Selected(41, 2); from there a frame with Confirm alone
\* empties cells 41 and 2, puts two animations in flight (spec 41 leaving
\* cell 41, spec 2 leaving cell 2) and leaves the cursor Unselected(2); and
\* the next frame, whatever its buttons, leaves
\* no animation in flight, spec 41 in cell 2, spec 2 in cell 41 and every
\* other cell as it started.  (grid = << >> is the untouched grid.)
C7_EndToEnd ==
    [][ LET sel(a, d) == [tag |-> "Selected", c1 |-> a, c2 |-> d]
            unsel(c) == [tag |-> "Unselected", c1 |-> c, c2 |-> c]
            fresh == grid = << >> /\ animations = << >>
        IN  /\ (fresh /\ cursor = unsel(41) /\ input' = {A}) =>
                 /\ cursor' = sel(41, 41)
                 /\ grid' = << >> /\ animations' = << >>
            /\ (fresh /\ cursor = sel(41, 41) /\ input' = {Right}) =>
                 /\ cursor' = sel(41, 2)
                 /\ grid' = << >> /\ animations' = << >>
            /\ (fresh /\ cursor = sel(41, 2) /\ input' = {A}) =>
                 /\ cursor' = unsel(2)
                 /\ Len(animations') = 2
                 /\ <<animations'[1].from, animations'[1].spec>> = <<41, 41>>
                 /\ <<animations'[2].from, animations'[2].spec>> = <<2, 2>>
                 /\ \A i \in 0..2399 :
                       at(grid', i) = IF i \in {2, 41} THEN None ELSE i % 256
            /\ ( /\ Len(animations) = 2
                 /\ animations[1].age = 0 /\ animations[2].age = 0
                 /\ <<animations[1].from, animations[1].spec>> = <<41, 41>>
                 /\ <<animations[2].from, animations[2].spec>> = <<2, 2>>
                 /\ DOMAIN grid = {2, 41}
                 /\ cursor = unsel(2) ) =>
                 /\ animations' = << >>
                 /\ \A i \in 0..2399 :
                       at(grid', i) = IF i = 2 THEN 41
                                      ELSE IF i = 41 THEN 2 ELSE i % 256
      ]_vars

\* C7 witness: the fourth frame of the scenario has passed: both animations
\* committed in it, the board holds the swapped specs and nothing else has
\* changed.
C7_Witness ==
    /\ frame_counter = 4
    /\ Len(mid.commits) = 2
    /\ animations = << >>
    /\ cursor = [tag |-> "Unselected", c1 |-> 2, c2 |-> 2]
    /\ \A i \in 0..2399 :
          at(grid, i) = IF i = 2 THEN 41 ELSE IF i = 41 THEN 2 ELSE i % 256

\* C8 -- Confirm transitions of the cursor.  In a frame with Confirm
\* pressed: if the cursor is Unselected(c) and cell c is occupied when the
\* Confirm is handled, the Confirm makes the cursor Selected(c, c); if the
\* cursor is Selected(a, d) and cells a and d are both occupied, it makes
\* the cursor Unselected(d).  That is the cursor the frame's directional
\* presses start from, and the cursor after the frame when Confirm is the
\* only button pressed.
C8_ConfirmTransitions ==
    [][ (A \in input') =>
          LET c == cursor.c1
              d == cursor.c2
              becomes(cur) == /\ mid'.cursor = cur
                              /\ input' = {A} => cursor' = cur
          IN  /\ (cursor.tag = "Unselected" /\ at(mid'.grid, c) # None) =>
                    becomes([tag |-> "Selected", c1 |-> c, c2 |-> c])
              /\ ( /\ cursor.tag = "Selected"
                   /\ at(mid'.grid, c) # None
                   /\ at(mid'.grid, d) # None ) =>
                    becomes([tag |-> "Unselected", c1 |-> d, c2 |-> d])
      ]_vars

\* C8 witness: a Confirm has just swapped an anchor with a different drag
\* cell, and the cursor is Unselected on the drag cell.
C8_Witness ==
    /\ input = {A}
    /\ cursor.tag = "Unselected"
    /\ \E k \in 1..Len(animations) :
          /\ animations[k].age = 0
          /\ animations[k].from # cursor.c2
          /\ animations[k].target_y * 40 + animations[k].target_x = cursor.c2

\* C9 -- Confirm on an empty cell.  In a frame with Confirm pressed while
\* the cursor is Unselected(c) and cell c is empty, or Selected(a, d) and
\* cell a or cell d is empty (when the Confirm is handled), the Confirm
\* changes nothing: grid and animation set end the frame as the update loop
\* left them, the cursor is the same before and after the Confirm (form and
\* indices), and the indices it reads the grid at are on the board.
C9_ConfirmOnEmpty ==
    [][ ( /\ A \in input'
          /\ \/ cursor.tag = "Unselected" /\ at(mid'.grid, cursor.c1) = None
             \/ /\ cursor.tag = "Selected"
                /\ \/ at(mid'.grid, cursor.c1) = None
                   \/ at(mid'.grid, cursor.c2) = None )
        => /\ grid' = mid'.grid
           /\ animations' = mid'.animations
           /\ mid'.cursor = cursor
           /\ input' = {A} => cursor' = cursor
           /\ cursor.c1 \in 0..2399 /\ cursor.c2 \in 0..2399
      ]_vars

\* C9 witness: Confirm was pressed while the anchor of a Selected cursor was
\* empty (a match on its hexagon had cleared it); the cursor is still
\* Selected there.
C9_Witness ==
    /\ input = {A}
    /\ cursor.tag = "Selected"
    /\ mid.cursor = cursor
    /\ at(mid.grid, cursor.c1) = None
    /\ grid = mid.grid
    /\ animations = mid.animations

\* C10 -- Anchor is fixed.  A cursor that is Selected before and after a
\* frame has the same anchor; a cursor that becomes Selected in a frame has
\* the cell it was on as its anchor; and in a frame without Confirm the
\* directional presses change neither the form of the cursor nor its
\* anchor, and grid and animation set end the frame as the update loop
\* left them.
C10_AnchorFixed ==
    [][ /\ (cursor.tag = "Selected" /\ cursor'.tag = "Selected") =>
              cursor'.c1 = cursor.c1
        /\ (cursor.tag = "Unselected" /\ cursor'.tag = "Selected") =>
              cursor'.c1 = cursor.c2
        /\ mid'.cursor.tag = cursor'.tag
        /\ mid'.cursor.tag = "Selected" => cursor'.c1 = mid'.cursor.c1
        /\ A \notin input' =>
              /\ cursor'.tag = cursor.tag
              /\ grid' = mid'.grid
              /\ animations' = mid'.animations
      ]_vars

\* C10 witness: directional presses alone moved the drag of a Selected
\* cursor away from where it was, the anchor staying.
C10_Witness ==
    /\ A \notin input
    /\ input # {}
    /\ cursor.tag = "Selected"
    /\ mid.cursor.tag = "Selected"
    /\ cursor.c2 # mid.cursor.c2
    /\ cursor.c1 = mid.cursor.c1
    /\ cursor.c1 # cursor.c2

\* C11 -- Initial state.  Before the first frame (frame_counter = 0, the
\* state GameState::new returns; the seed is not read) every cell i of the
\* board holds spec i mod 256, the cursor is Unselected(41) and no
\* animation is in flight.
C11_InitialState ==
    frame_counter = 0 =>
        /\ \A i \in 0..2399 : at(grid, i) = i % 256
        /\ cursor = [tag |-> "Unselected", c1 |-> 41, c2 |-> 41]
        /\ animations = << >>

\* C11 witness: the state before the first frame, with the spec sequence
\* wrapped round (cell 255 holds 255, cell 256 holds 0, the last cell 95).
C11_Witness ==
    /\ frame_counter = 0
    /\ cursor.c2 = 41
    /\ at(grid, 255) = 255
    /\ at(grid, 256) = 0
    /\ at(grid, 2399) = 95

\* the animations of `anims` that complete in the coming update pass, as
\* they are when committed (after their approach_target call)
completing(anims) ==
    LET stepped == [k \in 1..Len(anims) |-> approach_target(anims[k])]
    IN  SelectSeq(stepped, is_complete)

\* the orders n things can be taken in
Orders(n) == {p \in [1..n -> 1..n] : \A i, j \in 1..n : p[i] = p[j] => i = j}

\* the grid after committing done[p[1]], .., done[p[k]] in that order
RECURSIVE commit_in_order(_, _, _, _)
commit_in_order(g, done, p, k) ==
    IF k = 0 THEN g
    ELSE commit(commit_in_order(g, done, p, k - 1), done[p[k]])

\* C12 -- Commit order independence.  In every frame, committing the
\* animations that complete in that frame in any order whatever gives the
\* grid the frame's update pass produced.
C12_CommitOrderIndependent ==
    [][ LET done == completing(animations)
        IN  \A p \in Orders(Len(done)) :
                commit_in_order(grid, done, p, Len(done)) = mid'.grid ]_vars

\* C12, restricted to frames in which no completing animation starts on
\* its own target (a swap of a cell with itself)
C12_WithoutSelfSwaps ==
    [][ LET done == completing(animations)
        IN  (\A k \in 1..Len(done) : done[k].from # xy_to_i(done[k].x, done[k].y))
            => \A p \in Orders(Len(done)) :
                 commit_in_order(grid, done, p, Len(done)) = mid'.grid ]_vars

\* C13 -- Anchor stays occupied while selected.  At every frame boundary
\* at which the cursor is Selected(a, d), grid cell a holds a spec.
C13_AnchorOccupied ==
    IsSelected(cursor) => at(grid, cursor.c1) # None

\* C14 -- Cursor indices stay on the board.  Every index the cursor holds
\* lies in 0..2399, before and after every frame; and a directional press
\* whose target index (the moving position plus the table entry of its row
\* type, half and direction) is negative or at least 2400 leaves the cursor
\* as it was.
C14_CursorOnBoard ==
    [][ /\ {cursor.c1, cursor.c2, cursor'.c1, cursor'.c2} \subseteq 0..2399
        /\ \A d \in {0, 1, 2, 3} :
             LET old == cursor.c2
                 entry == MOVEMENT[8 * ((old \div 40) % 3) + 4 * ((old % 40) % 2) + d + 1]
             IN  (input' = {d} /\ (old + entry < 0 \/ old + entry >= 2400))
                    => cursor' = cursor
      ]_vars

\* C14 witness: an Up press in the top row, whose target index is negative,
\* was rejected and left a Selected cursor where it was.
C14_Witness ==
    /\ input = {Up}
    /\ frame_counter > SettledFrame
    /\ cursor.tag = "Selected"
    /\ cursor.c2 < 40
    /\ cursor.c2 + MOVEMENT[4 * (cursor.c2 % 2) + 1] < 0
    /\ mid.cursor = cursor

\* C15 (as claimed) -- Animation positions use the rendering layout.  The
\* two animations a swap has just created (age 0), one leaving cell i for
\* cell j and one leaving j for i, start at the pixel position p_xy of the
\* cell they left and target the pixel position p_xy of the other cell, and
\* their rates are max(1, distance div 16) over those pixel distances.
C15_AsClaimed ==
    \A k, j \in 1..Len(animations) :
        (k # j /\ animations[k].age = 0 /\ animations[j].age = 0) =>
            LET an == animations[k]
                i == an.from
                t == animations[j].from
                s == p_xy(i % 40, i \div 40)
                e == p_xy(t % 40, t \div 40)
                dist(v, w) == IF v >= w THEN v - w ELSE w - v
                most(m, n) == IF m >= n THEN m ELSE n
            IN  /\ <<an.x, an.y>> = s
                /\ <<an.target_x, an.target_y>> = e
                /\ an.x_rate = most(1, dist(s[1], e[1]) \div 16)
                /\ an.y_rate = most(1, dist(s[2], e[2]) \div 16)

\* C15 (amended) -- Animation positions are grid coordinates.  The two
\* animations a swap has just created (age 0), one leaving cell i for cell
\* j and one leaving j for i, start at (i mod 40, i div 40) and target
\* (j mod 40, j div 40), the raw grid coordinates of the cells, and their
\* rates are max(1, distance div 16) over the column and row distances.
C15_GridCoordinates ==
    \A k, j \in 1..Len(animations) :
        (k # j /\ animations[k].age = 0 /\ animations[j].age = 0) =>
            LET an == animations[k]
                i == an.from
                t == animations[j].from
                dist(v, w) == IF v >= w THEN v - w ELSE w - v
                most(m, n) == IF m >= n THEN m ELSE n
            IN  /\ <<an.x, an.y>> = <<i % 40, i \div 40>>
                /\ <<an.target_x, an.target_y>> = <<t % 40, t \div 40>>
                /\ an.x_rate = most(1, dist(i % 40, t % 40) \div 16)
                /\ an.y_rate = most(1, dist(i \div 40, t \div 40) \div 16)

\* C15 witness: a swap between cell 0 and cell 2399 has just been started;
\* the animation leaving cell 0 starts at (0, 0) and targets (39, 59), not
\* the pixel position p_xy(0, 0) = (6, 6).
C15_Witness ==
    \E k \in 1..Len(animations) :
        /\ animations[k].age = 0
        /\ animations[k].from = 0
        /\ <<animations[k].x, animations[k].y>> = <<0, 0>>
        /\ <<animations[k].target_x, animations[k].target_y>> = <<39, 59>>
        /\ <<animations[k].x_rate, animations[k].y_rate>> = <<2, 3>>
        /\ p_xy(0, 0) = <<6, 6>>

\* C16 -- Moves are reversible.  When a directional press has moved the
\* cursor (the frame just ended had that one button and changed the moving
\* position from c to c'), the opposite press in the next frame brings
\* the cursor back to what it was before the first press; and every press
\* that moves the cursor changes the column of the moving position by
\* exactly 1.
C16_MovesReversible ==
    [][ LET opposite(d) == CASE d = 0 -> 1 [] d = 1 -> 0 [] d = 2 -> 3 [] d = 3 -> 2
            dist(v, w) == IF v >= w THEN v - w ELSE w - v
        IN  \A d \in {0, 1, 2, 3} :
              /\ (input = {d} /\ mid.cursor # cursor /\ input' = {opposite(d)})
                    => cursor' = mid.cursor
              /\ (input' = {d} /\ cursor' # cursor)
                    => dist(cursor'.c2 % 40, cursor.c2 % 40) = 1
      ]_vars

\* C16 witness: a Selected cursor was moved Left out of column 0 into
\* column 1 of the next row, and the Right press that followed brought it
\* back to column 0.
C16_Witness ==
    /\ frame_counter = SettledFrame + 2
    /\ input = {Right}
    /\ cursor.tag = "Selected"
    /\ cursor.c2 % 40 = 0
    /\ mid.cursor.c2 = cursor.c2 + 41
    /\ cursor.c1 # cursor.c2

\* C17 -- No unresolved match survives a frame.  At every frame boundary
\* there is no hexagon (the cell in an even column x and the cell in column
\* x + 1 of the same row) whose two cells are both occupied by pieces with
\* equal masked colours.
C17_NoUnresolvedMatch ==
    \A y \in 0..59 : \A h \in 0..19 :
        LET left == at(grid, 40 * y + 2 * h)
            right == at(grid, 40 * y + 2 * h + 1)
        IN  (left # None /\ right # None)
                => <<left % 8, (left \div 16) % 8>> # <<right % 8, (right \div 16) % 8>>

\* C17 witness: a piece landed next to a resting piece of equal colours in
\* this frame, and at the frame boundary both cells of the hexagon are
\* empty.
C17_Witness ==
    \E k \in 1..Len(mid.commits) :
        LET e == mid.commits[k]
        IN  /\ e.other_before # None
            /\ e.spec % 8 = e.other_before % 8
            /\ (e.spec \div 16) % 8 = (e.other_before \div 16) % 8
            /\ at(grid, e.index) = None
            /\ at(grid, e.other) = None

\* the number of pieces: occupied cells plus animations in flight
pieces(g, anims) ==
    (GRID_LENGTH - Cardinality({i \in DOMAIN g : g[i] = None})) + Len(anims)

\* C18 -- Pieces are conserved.  At every frame boundary the occupied cells
\* and the animations in flight together number at most 2400; from one
\* frame boundary to the next that number stays the same or drops by
\* exactly 2; and no two animations in flight carry the piece of the same
\* cell.
C18_PiecesConserved ==
    [][ /\ pieces(grid, animations) <= 2400
        /\ pieces(grid', animations') <= 2400
        /\ \/ pieces(grid', animations') = pieces(grid, animations)
           \/ pieces(grid', animations') = pieces(grid, animations) - 2
        /\ \A k, j \in 1..Len(animations') :
              k # j => animations'[k].from # animations'[j].from
      ]_vars

\* C19 -- The two animations of one swap finish together.  At every frame
\* boundary the number of animations in flight is even and every animation
\* in flight, leaving cell A for cell B, has its counterpart in flight too:
\* another animation, leaving B for A, advanced as many times.  And every
\* animation committed in a frame, having left A for B, has its
\* counterpart (having left B for A) committed in the same frame.  So the
\* two cells of a swap are both still empty or both committed.
C19_SwapFinishesTogether ==
    /\ Len(animations) % 2 = 0
    /\ \A k \in 1..Len(animations) :
          \E j \in 1..Len(animations) :
              /\ j # k
              /\ animations[j].from = animations[k].target_y * 40 + animations[k].target_x
              /\ animations[j].target_y * 40 + animations[j].target_x = animations[k].from
              /\ animations[j].age = animations[k].age
    /\ \A k \in 1..Len(mid.commits) :
          \E j \in 1..Len(mid.commits) :
              /\ j # k
              /\ mid.commits[j].from = mid.commits[k].index
              /\ mid.commits[j].index = mid.commits[k].from
              /\ mid.commits[j].age = mid.commits[k].age

\* C19 witness: the two animations of a swap over at least 32 columns,
\* whose rates exceed 1, were committed in the same frame, each into the
\* cell the other left, and nothing is left in flight.
C19_Witness ==
    /\ animations = << >>
    /\ Len(mid.commits) = 2
    /\ mid.commits[1].from = mid.commits[2].index
    /\ mid.commits[2].from = mid.commits[1].index
    /\ mid.commits[1].index % 40 >= (mid.commits[1].from % 40) + 32
    /\ mid.commits[1].age >= 2
    /\ at(grid, mid.commits[1].index) = mid.commits[1].spec
    /\ at(grid, mid.commits[2].index) = mid.commits[2].spec

\* a Selected cursor whose anchor is empty with no animation on its way
\* to fill it
anchor_lost(g, cur, anims) ==
    /\ IsSelected(cur)
    /\ at(g, cur.c1) = None
    /\ \A k \in 1..Len(anims) : xy_to_i(anims[k].target_x, anims[k].target_y) # cur.c1

\* C20 -- No soft-lock in Selected.  From every reachable state with a
\* Selected cursor some finite sequence of frames and presses makes the
\* cursor Unselected again.  The cursor leaves Selected only in a frame
\* whose Confirm finds the anchor occupied, and a cell is filled only by an
\* animation that targets it; so the claim says that no reachable state has
\* a Selected cursor whose anchor is empty and is the target of no
\* animation in flight.
C20_NoSoftLock == ~anchor_lost(grid, cursor, animations)

\* C20, the other half of the argument: a state with a lost anchor is
\* followed only by states with a lost anchor, whatever is pressed, so the
\* cursor stays Selected for ever.
C20_LostForEver ==
    [][ anchor_lost(grid, cursor, animations)
            => anchor_lost(grid', cursor', animations') ]_vars

====
